---------------------------- MODULE Spec2Model ----------------------------
(***************************************************************************)
(* Model of the ETF analytics engine (src/helpers_analysis.py) and of the  *)
(* dashboard that calls it (src/view.py, src/main.py).                     *)
(*                                                                         *)
(* The engine is a library of functions over pandas Series/DataFrames.     *)
(* A state of the model is a caller holding arguments (a price series, or  *)
(* a return series with a window and a risk-free rate, or a price table    *)
(* with or without a list of tickers) and the last call it made on         *)
(* them: the function called (op) and what it returned or raised.  The     *)
(* caller may call the functions that take its arguments in any order,     *)
(* any number of times (specification Spec).                               *)
(*                                                                         *)
(* The dashboard (specification ViewSpec) is a run of the page script on   *)
(* the stored tables and the widgets' values, and a call of the radar      *)
(* chart's rescaling on a list of metric values.                           *)
(*                                                                         *)
(* The ETL script (specification EtlSpec) rebuilds the two tables from the *)
(* configuration and the data provider, step by step, while a reader       *)
(* queries the repository.                                                 *)
(*                                                                         *)
(* Floating point numbers are modelled as exact rationals extended with    *)
(* NaN (pandas' "undefined"), +inf and -inf, with the IEEE-754 rules for   *)
(* the special values (x/0 = +-inf for x # 0, 0/0 = NaN, inf - inf = NaN,  *)
(* 0 * inf = NaN).  Rounding and the sign of zero are not modelled.        *)
(***************************************************************************)
EXTENDS Integers, Sequences, FiniteSets, TLC

VARIABLES
    fill_method,      \* default fill_method of Series.pct_change in the installed pandas
    given,            \* which arguments the caller holds: "prices", "returns" or "df"
    op,               \* the engine function called last ("none" before any call)
    prices,           \* argument `prices` (a Series, as a sequence of values)
    returns,          \* argument `returns` (a Series, as a sequence of values)
    window,           \* argument `window`
    risk_free_rate,   \* argument `risk_free_rate`
    df,               \* argument `df` (long-format table, a sequence of rows)
    tickers,          \* argument `tickers` (a list of tickers)
    result,           \* the value returned
    raised,           \* the exception raised ("none" when the call returned)
    values,           \* argument `values` of normalize_minmax: one metric value per instrument
    metric,           \* the metric the values are of (a key of all_metrics_values)
    etf_metadata,     \* table etf_metadata: a sequence of rows, each held as its ticker
    etf_prices,       \* table etf_prices: a sequence of rows [date, ticker, close]
    page,             \* the page chosen in the sidebar
    selected,         \* the tickers chosen in the selectbox / multiselect
    period,           \* the analysis period [start, end] of get_date_range
    config,           \* the etfs of config.yaml, each held as its ticker
    market,           \* the closes the data provider has, per ticker and date
    pc,               \* the position of the ETL script
    schema            \* per table: "none", or how it was created ("keyed", "unkeyed")

vars == <<fill_method, given, op, prices, returns, window, risk_free_rate, df, tickers,
          result, raised, values, metric, etf_metadata, etf_prices, page, selected,
          period, config, market, pc, schema>>

---------------------------------------------------------------------------
(* Bounds of the model.                                                    *)

MaxLen == 3        \* longest price / return series enumerated
MaxWindow == 3     \* largest rolling window enumerated
MaxRows == 3       \* most rows in an enumerated price table
MaxInstruments == 3  \* most instruments compared in the radar chart
MaxEtfs == 2       \* most entries in the etfs list of the configuration

---------------------------------------------------------------------------
(* Extended rationals: [k, n, d] with k the kind, n/d the value in lowest  *)
(* terms (d > 0) when k = "num".                                           *)

RECURSIVE Gcd(_, _)
Gcd(a, b) == IF b = 0 THEN a ELSE Gcd(b, a % b)

Abs(x) == IF x < 0 THEN -x ELSE x

NaN  == [k |-> "nan",  n |-> 0, d |-> 1]
PInf == [k |-> "pinf", n |-> 0, d |-> 1]
NInf == [k |-> "ninf", n |-> 0, d |-> 1]

Num(a, b) ==
    LET s == IF b < 0 THEN -1 ELSE 1
        g == Gcd(Abs(a), Abs(b))
    IN  [k |-> "num", n |-> (s * a) \div g, d |-> (s * b) \div g]

Int2F(i) == Num(i, 1)
Zero == Int2F(0)
One == Int2F(1)

IsNaN(x) == x.k = "nan"
IsInf(x) == x.k \in {"pinf", "ninf"}
IsNum(x) == x.k = "num"
Defined(x) == ~IsNaN(x)

\* sign of a non-NaN value: -1, 0 or 1
Sign(x) ==
    CASE x.k = "pinf" -> 1
      [] x.k = "ninf" -> -1
      [] OTHER -> IF x.n > 0 THEN 1 ELSE IF x.n < 0 THEN -1 ELSE 0

InfOfSign(s) == IF s > 0 THEN PInf ELSE NInf

FNeg(x) ==
    CASE x.k = "nan" -> NaN
      [] x.k = "pinf" -> NInf
      [] x.k = "ninf" -> PInf
      [] OTHER -> Num(-x.n, x.d)

FAdd(x, y) ==
    CASE IsNaN(x) \/ IsNaN(y) -> NaN
      [] IsInf(x) /\ IsInf(y) -> IF x.k = y.k THEN x ELSE NaN
      [] IsInf(x) -> x
      [] IsInf(y) -> y
      [] OTHER -> Num(x.n * y.d + y.n * x.d, x.d * y.d)

FSub(x, y) == FAdd(x, FNeg(y))

FMul(x, y) ==
    CASE IsNaN(x) \/ IsNaN(y) -> NaN
      [] IsInf(x) \/ IsInf(y) ->
            IF Sign(x) * Sign(y) = 0 THEN NaN ELSE InfOfSign(Sign(x) * Sign(y))
      [] OTHER -> Num(x.n * y.n, x.d * y.d)

FDiv(x, y) ==
    CASE IsNaN(x) \/ IsNaN(y) -> NaN
      [] IsInf(x) /\ IsInf(y) -> NaN
      [] IsInf(x) -> InfOfSign(Sign(x) * (IF Sign(y) < 0 THEN -1 ELSE 1))
      [] IsInf(y) -> Zero
      [] y.n = 0 -> IF x.n = 0 THEN NaN ELSE InfOfSign(Sign(x))
      [] OTHER -> Num(x.n * y.d, x.d * y.n)

\* x < y on non-NaN values (every comparison with NaN is False)
FLess(x, y) ==
    /\ Defined(x) /\ Defined(y)
    /\ CASE x.k = "pinf" -> FALSE
         [] y.k = "ninf" -> FALSE
         [] x.k = "ninf" -> y.k # "ninf"
         [] y.k = "pinf" -> x.k # "pinf"
         [] OTHER -> x.n * y.d < y.n * x.d

FLeq(x, y) == Defined(x) /\ Defined(y) /\ ~FLess(y, x)

---------------------------------------------------------------------------
(* calculate_returns: prices.pct_change().                                 *)
(* Series.pct_change(fill_method) is                                       *)
(*     data = self.fillna(method=fill_method)   (skipped when None)        *)
(*     data / data.shift(1) - 1                                            *)
(* and the default fill_method is "pad" (forward fill) up to pandas 2.x    *)
(* and None from pandas 3.0.  The repository pins no version, so the       *)
(* default is a choice of the build (variable fill_method).                *)

\* Series.fillna(method="pad"): every NaN takes the last value before it.
RECURSIVE Pad(_)
Pad(s) ==
    IF Len(s) <= 1 THEN s
    ELSE LET h == Pad(SubSeq(s, 1, Len(s) - 1))
             x == s[Len(s)]
         IN  Append(h, IF IsNaN(x) THEN h[Len(h)] ELSE x)

\* Faulty variant of Shift1, shift(2): the change is taken across two positions.
ShiftTwo(s) == [i \in 1..Len(s) |-> IF i <= 2 THEN NaN ELSE s[i - 2]]

\* Series.shift(1): the value at i is the value at i-1, NaN at the first position.
Shift1(s) == [i \in 1..Len(s) |-> IF i = 1 THEN NaN ELSE s[i - 1]]

PctChange(s, fm) ==
    LET data == IF fm = "pad" THEN Pad(s) ELSE s
        prev == Shift1(data)
    IN  [i \in 1..Len(s) |-> FSub(FDiv(data[i], prev[i]), One)]

calculate_returns(p, fm) == PctChange(p, fm)

---------------------------------------------------------------------------
(* Inputs enumerated.                                                      *)

PriceValues == {NaN, Int2F(0), Int2F(1), Int2F(2), Int2F(3)}

RECURSIVE SeqsUpTo(_, _)
SeqsUpTo(S, n) ==
    IF n = 0 THEN {<<>>}
    ELSE LET T == SeqsUpTo(S, n - 1)
         IN  T \cup {Append(t, x) : t \in {u \in T : Len(u) = n - 1}, x \in S}

\* the scenarios of the specification's testable properties
ScenarioPrices ==
    { <<Int2F(100), Int2F(110), Int2F(121)>>,
      <<Int2F(100), Int2F(90), Int2F(99)>> }

PriceSeries == SeqsUpTo(PriceValues, MaxLen) \cup ScenarioPrices

FillMethods == {"pad", "none"}

NoSeries == <<>>

---------------------------------------------------------------------------
(* calculate_cumulative_returns: (1 + returns).cumprod() - 1.              *)
(* Series.cumprod() has skipna=True: nanops.na_accum_func replaces every   *)
(* NaN by 1, takes numpy's cumulative product, and puts NaN back at the    *)
(* positions that were NaN.                                                *)

RECURSIVE RunningProduct(_)
RunningProduct(s) ==
    IF Len(s) = 0 THEN <<>>
    ELSE LET h == RunningProduct(SubSeq(s, 1, Len(s) - 1))
             x == IF IsNaN(s[Len(s)]) THEN One ELSE s[Len(s)]
         IN  Append(h, IF Len(h) = 0 THEN x ELSE FMul(h[Len(h)], x))

\* Faulty variant of CumProd: cumsum() in place of cumprod().
RECURSIVE RunningSum(_)
RunningSum(s) ==
    IF Len(s) = 0 THEN <<>>
    ELSE LET h == RunningSum(SubSeq(s, 1, Len(s) - 1))
             x == IF IsNaN(s[Len(s)]) THEN Zero ELSE s[Len(s)]
         IN  Append(h, IF Len(h) = 0 THEN x ELSE FAdd(h[Len(h)], x))

CumSum(s) ==
    LET acc == RunningSum(s)
    IN  [i \in 1..Len(s) |-> IF IsNaN(s[i]) THEN NaN ELSE acc[i]]

CumProd(s) ==
    LET acc == RunningProduct(s)
    IN  [i \in 1..Len(s) |-> IF IsNaN(s[i]) THEN NaN ELSE acc[i]]

calculate_cumulative_returns(p, fm) ==
    LET r == calculate_returns(p, fm)
        growth == [i \in 1..Len(r) |-> FAdd(One, r[i])]
        c == CumProd(growth)
    IN  [i \in 1..Len(c) |-> FSub(c[i], One)]

---------------------------------------------------------------------------
(* Rolling statistics: Series.rolling(window=W) has min_periods = W, and   *)
(* the statistic at position i is over the observations at positions       *)
(* i-W+1 .. i that exist and are not NaN, NaN when fewer than min_periods  *)
(* of them are there.  std() has ddof = 1.                                 *)
(*                                                                         *)
(* A standard deviation is irrational in general: a value x that comes     *)
(* from a standard deviation (the volatility and the two ratios) is held   *)
(* as its signed square x*|x|, which keeps NaN, the infinities, zero, the  *)
(* sign and the order.  So the deviation is held as the variance, the      *)
(* factor sqrt(window) as window, and a quotient a/x as a*|a| / (x*|x|).   *)

RECURSIVE FSum(_)
FSum(s) == IF Len(s) = 0 THEN Zero ELSE FAdd(s[1], FSum(Tail(s)))

\* the observations of the window that ends at position i
Observations(s, i, W) ==
    LET lo == IF i - W + 1 < 1 THEN 1 ELSE i - W + 1
    IN  SelectSeq(SubSeq(s, lo, i), Defined)

\* Faulty variant of MinPeriods: rolling(window=W, min_periods=1).
MinPeriodsOne(W) == 1

MinPeriods(W) == W

RollingMean(s, W) ==
    [i \in 1..Len(s) |->
        LET obs == Observations(s, i, W)
        IN  IF Len(obs) >= MinPeriods(W) /\ Len(obs) > 0
            THEN FDiv(FSum(obs), Int2F(Len(obs)))
            ELSE NaN]

\* rolling(W).std(), held as its square: the sample variance (ddof = 1)
RollingStd(s, W) ==
    [i \in 1..Len(s) |->
        LET obs == Observations(s, i, W)
            m == FDiv(FSum(obs), Int2F(Len(obs)))
            dev == [j \in 1..Len(obs) |-> FMul(FSub(obs[j], m), FSub(obs[j], m))]
        IN  IF Len(obs) >= MinPeriods(W) /\ Len(obs) > 1
            THEN FDiv(FSum(dev), Int2F(Len(obs) - 1))
            ELSE NaN]

\* x * |x|
SignedSquare(x) == IF Defined(x) /\ Sign(x) < 0 THEN FNeg(FMul(x, x)) ELSE FMul(x, x)

\* np.sqrt(window), held as its square
SqrtWindow(W) == Int2F(W)

calculate_volatility(r, W) ==
    LET sd == RollingStd(r, W)
    IN  [i \in 1..Len(r) |-> FMul(sd[i], SqrtWindow(W))]

ExcessReturns(r, rf, W) ==
    [i \in 1..Len(r) |-> FSub(r[i], FDiv(rf, Int2F(W)))]

calculate_sharpe_ratio(r, rf, W) ==
    LET excess_returns == ExcessReturns(r, rf, W)
        mean == RollingMean(excess_returns, W)
        sd == RollingStd(r, W)
    IN  [i \in 1..Len(r) |->
            FDiv(SignedSquare(FMul(mean[i], Int2F(W))), FMul(sd[i], SqrtWindow(W)))]

\* downside_returns[downside_returns > 0] = 0 on a copy (NaN > 0 is False)
DownsideReturns(r) ==
    [i \in 1..Len(r) |-> IF FLess(Zero, r[i]) THEN Zero ELSE r[i]]

\* Faulty variant of SortinoObjects: downside_returns = returns, without .copy(),
\* so the masked assignment writes into the caller's series.
SortinoAliased(r) ==
    [returns |-> DownsideReturns(r), downside_returns |-> DownsideReturns(r)]

\* the two series calculate_sortino_ratio holds after its masked assignment:
\* the caller's, and the copy it has zeroed the positive entries of
SortinoObjects(r) ==
    LET copy == [returns |-> r, downside_returns |-> r]
    IN  [copy EXCEPT !.downside_returns = DownsideReturns(copy.downside_returns)]

calculate_sortino_ratio(r, rf, W) ==
    LET excess_returns == ExcessReturns(r, rf, W)
        downside_returns == DownsideReturns(r)
        sd == RollingStd(downside_returns, W)
        downside_std == [i \in 1..Len(r) |-> FMul(sd[i], SqrtWindow(W))]
        mean == RollingMean(excess_returns, W)
    IN  [i \in 1..Len(r) |->
            FDiv(SignedSquare(FMul(mean[i], Int2F(W))), downside_std[i])]

---------------------------------------------------------------------------
(* calculate_max_drawdown: expanding().max() has min_periods = 1 and skips *)
(* NaN; Series.min() skips NaN and is NaN for a series with no value.      *)

FMax2(x, y) == IF FLess(x, y) THEN y ELSE x
FMin2(x, y) == IF FLess(y, x) THEN y ELSE x

RECURSIVE FMaxSeq(_)
FMaxSeq(s) ==
    IF Len(s) = 0 THEN NaN
    ELSE IF Len(s) = 1 THEN s[1] ELSE FMax2(s[1], FMaxSeq(Tail(s)))

RECURSIVE FMinSeq(_)
FMinSeq(s) ==
    IF Len(s) = 0 THEN NaN
    ELSE IF Len(s) = 1 THEN s[1] ELSE FMin2(s[1], FMinSeq(Tail(s)))

\* Faulty variant of ExpandingMax: rolling(2).max() in place of expanding().max().
RollingMaxOfTwo(s) ==
    [i \in 1..Len(s) |->
        FMaxSeq(SelectSeq(SubSeq(s, IF i = 1 THEN 1 ELSE i - 1, i), Defined))]

ExpandingMax(s) ==
    [i \in 1..Len(s) |-> FMaxSeq(SelectSeq(SubSeq(s, 1, i), Defined))]

SeriesMin(s) == FMinSeq(SelectSeq(s, Defined))

calculate_max_drawdown(p) ==
    LET rolling_max == ExpandingMax(p)
        drawdowns == [i \in 1..Len(p) |-> FSub(FDiv(p[i], rolling_max[i]), One)]
    IN  SeriesMin(drawdowns)

---------------------------------------------------------------------------
(* normalize_prices.  The table df is a sequence of rows                   *)
(* [date, ticker, close]; the DataFrame returned is                        *)
(* [index, columns, data] with data[k] the values of column columns[k],    *)
(* aligned with index.                                                     *)

Base == 100

\* df.sort_values("date"): rows in ascending date order.  (The relative order of
\* rows of the same date is not used: the rows of one ticker have distinct dates.)
RECURSIVE InsertByDate(_, _)
InsertByDate(sorted, row) ==
    IF Len(sorted) = 0 THEN <<row>>
    ELSE IF sorted[Len(sorted)].date <= row.date THEN Append(sorted, row)
    ELSE Append(InsertByDate(SubSeq(sorted, 1, Len(sorted) - 1), row),
                sorted[Len(sorted)])

\* Faulty variant of SortByDate: the table is left in the order given.
Unsorted(t) == t

RECURSIVE SortByDate(_)
SortByDate(t) ==
    IF Len(t) = 0 THEN <<>>
    ELSE InsertByDate(SortByDate(SubSeq(t, 1, Len(t) - 1)), t[Len(t)])

\* df[df["ticker"] == ticker]
RowsOf(t, ticker) ==
    LET Is(row) == row.ticker = ticker
    IN  SelectSeq(t, Is)

EmptyFrame == [index |-> <<>>, columns |-> <<>>, data |-> <<>>]

\* ticker_data / ticker_data.iloc[0] * 100 on the rows of one ticker
Rebase(rows) ==
    [i \in 1..Len(rows) |-> FMul(FDiv(rows[i].close, rows[1].close), Int2F(Base))]

\* position of label x in the sequence of labels s, 0 when absent
PositionOf(s, x) ==
    IF \E i \in 1..Len(s) : s[i] = x
    THEN CHOOSE i \in 1..Len(s) : s[i] = x /\ \A j \in 1..(i - 1) : s[j] # x
    ELSE 0

\* normalized[ticker] = series: a frame without columns takes the index of the
\* series; otherwise the series is aligned on the frame's index (a label of the
\* index the series lacks gives NaN, a label only the series has is dropped).
SetColumn(frame, ticker, dates, vals) ==
    IF Len(frame.columns) = 0
    THEN [index |-> dates, columns |-> <<ticker>>, data |-> <<vals>>]
    ELSE LET aligned == [i \in 1..Len(frame.index) |->
                            LET j == PositionOf(dates, frame.index[i])
                            IN  IF j = 0 THEN NaN ELSE vals[j]]
             c == PositionOf(frame.columns, ticker)
         IN  IF c = 0
             THEN [frame EXCEPT !.columns = Append(@, ticker),
                                !.data = Append(@, aligned)]
             ELSE [frame EXCEPT !.data[c] = aligned]

\* the loop over tickers, after its first k iterations; iloc[0] on a ticker
\* without rows raises IndexError, which ends the call
RECURSIVE NormalizeLoop(_, _, _)
NormalizeLoop(sorted, ts, k) ==
    IF k = 0 THEN [raised |-> "none", frame |-> EmptyFrame]
    ELSE LET before == NormalizeLoop(sorted, ts, k - 1)
             ticker_data == RowsOf(sorted, ts[k])
             dates == [i \in 1..Len(ticker_data) |-> ticker_data[i].date]
         IN  IF before.raised # "none" THEN before
             ELSE IF Len(ticker_data) = 0
             THEN [raised |-> "IndexError", frame |-> EmptyFrame]
             ELSE [raised |-> "none",
                   frame |-> SetColumn(before.frame, ts[k], dates, Rebase(ticker_data))]

normalize_prices(t, ts) == NormalizeLoop(SortByDate(t), ts, Len(ts))

\* the two tables normalize_prices holds once it has sorted: the caller's, and
\* the sorted one sort_values returns, to which the local name df is rebound
NormalizeObjects(t) == [caller |-> t, df |-> SortByDate(t)]

---------------------------------------------------------------------------
(* calculate_correlation_matrix:                                           *)
(*     returns_df.pivot(columns="ticker", values="close").pct_change().corr() *)
(* pivot() is given no index, so it keeps the index of the table: the row  *)
(* labels (a RangeIndex for a table that carries the date as a column, as  *)
(* the docstring requires and as read_sql and concat(ignore_index=True)    *)
(* produce).  The comparison page pivots on the date instead.              *)

TickerOrder == <<"A", "B">>     \* the tickers in sorted order

\* the labels of the set S of integers, ascending
RECURSIVE SortedLabels(_)
SortedLabels(S) ==
    IF S = {} THEN <<>>
    ELSE LET m == CHOOSE x \in S : \A y \in S : y <= x
         IN  Append(SortedLabels(S \ {m}), m)

\* the table with its RangeIndex as the label of every row
RowLabelled(t) ==
    [i \in 1..Len(t) |-> [label |-> i, ticker |-> t[i].ticker, close |-> t[i].close]]

\* the table with the date as the label of every row
DateLabelled(t) ==
    [i \in 1..Len(t) |-> [label |-> t[i].date, ticker |-> t[i].ticker, close |-> t[i].close]]

\* mean of the closes of the rows of a cell (one row at most when the pair
\* (label, ticker) is unique); NaN for a cell without rows
CellOf(rows, label, ticker) ==
    LET Here(r) == r.label = label /\ r.ticker = ticker
        cell == SelectSeq(rows, Here)
    IN  IF Len(cell) = 0 THEN NaN
        ELSE FDiv(FSum([i \in 1..Len(cell) |-> cell[i].close]), Int2F(Len(cell)))

\* the wide table: one row per label, one column per ticker, both sorted
Pivot(rows) ==
    LET index == SortedLabels({rows[i].label : i \in 1..Len(rows)})
        Present(t) == \E i \in 1..Len(rows) : rows[i].ticker = t
        columns == SelectSeq(TickerOrder, Present)
    IN  [index |-> index,
         columns |-> columns,
         data |-> [c \in 1..Len(columns) |->
                     [i \in 1..Len(index) |-> CellOf(rows, index[i], columns[c])]]]

\* DataFrame.pct_change(): Series.pct_change() of every column
FramePctChange(frame, fm) ==
    [frame EXCEPT !.data = [c \in 1..Len(frame.columns) |-> PctChange(frame.data[c], fm)]]

\* DataFrame.dropna(how="all"): the rows with a value in some column
DropEmptyRows(frame) ==
    LET Kept(i) == \E c \in 1..Len(frame.columns) : Defined(frame.data[c][i])
        rowsKept == SelectSeq([i \in 1..Len(frame.index) |-> i], Kept)
    IN  [index |-> [k \in 1..Len(rowsKept) |-> frame.index[rowsKept[k]]],
         columns |-> frame.columns,
         data |-> [c \in 1..Len(frame.columns) |->
                     [k \in 1..Len(rowsKept) |-> frame.data[c][rowsKept[k]]]]]

\* Faulty variant of Pearson: the covariance (DataFrame.cov() in place of corr()).
Covariance(x, y) ==
    LET Both(i) == Defined(x[i]) /\ Defined(y[i])
        at == SelectSeq([i \in 1..Len(x) |-> i], Both)
        n == Len(at)
        xs == [k \in 1..n |-> x[at[k]]]
        ys == [k \in 1..n |-> y[at[k]]]
        mx == FDiv(FSum(xs), Int2F(n))
        my == FDiv(FSum(ys), Int2F(n))
        cov == FSum([k \in 1..n |-> FMul(FSub(xs[k], mx), FSub(ys[k], my))])
    IN  IF n < 2 THEN NaN ELSE FDiv(cov, Int2F(n - 1))

\* Pearson correlation of two columns over the rows where both have a value
\* (libalgos.nancorr, min_periods = 1), held as its signed square:
\* cov / sqrt(ssx * ssy) is held as cov * |cov| / (ssx * ssy); NaN when there is
\* no such row or when the divisor is zero.
Pearson(x, y) ==
    LET Both(i) == Defined(x[i]) /\ Defined(y[i])
        at == SelectSeq([i \in 1..Len(x) |-> i], Both)
        n == Len(at)
        xs == [k \in 1..n |-> x[at[k]]]
        ys == [k \in 1..n |-> y[at[k]]]
        mx == FDiv(FSum(xs), Int2F(n))
        my == FDiv(FSum(ys), Int2F(n))
        ssx == FSum([k \in 1..n |-> FMul(FSub(xs[k], mx), FSub(xs[k], mx))])
        ssy == FSum([k \in 1..n |-> FMul(FSub(ys[k], my), FSub(ys[k], my))])
        cov == FSum([k \in 1..n |-> FMul(FSub(xs[k], mx), FSub(ys[k], my))])
    IN  IF n < 1 THEN NaN
        ELSE IF FMul(ssx, ssy) = Zero THEN NaN
        ELSE FDiv(SignedSquare(cov), FMul(ssx, ssy))

\* DataFrame.corr(): rows and columns are the columns of the frame
Corr(frame) ==
    [index |-> frame.columns,
     columns |-> frame.columns,
     data |-> [a \in 1..Len(frame.columns) |->
                 [b \in 1..Len(frame.columns) |-> Pearson(frame.data[a], frame.data[b])]]]

\* the index pivot() uses
PivotLabelled(t) == RowLabelled(t)

calculate_correlation_matrix(t, fm) == Corr(FramePctChange(Pivot(PivotLabelled(t)), fm))

---------------------------------------------------------------------------
(* The radar chart of the comparison page (display_etf_comparison, tab4):  *)
(* the metric values collected per instrument are rescaled to [0, 1] by    *)
(* normalize_minmax, volatility and drawdown after a change of sign.       *)
(* min() and max() are Python's builtins: a left fold that replaces the    *)
(* candidate when the next item compares smaller (greater), so an item     *)
(* that is NaN never replaces one, and one that comes first is never       *)
(* replaced.  Both raise ValueError on an empty list.                      *)

RECURSIVE PyMinFrom(_, _, _)
PyMinFrom(v, i, best) ==
    IF i > Len(v) THEN best
    ELSE PyMinFrom(v, i + 1, IF FLess(v[i], best) THEN v[i] ELSE best)

PyMin(v) == PyMinFrom(v, 2, v[1])

RECURSIVE PyMaxFrom(_, _, _)
PyMaxFrom(v, i, best) ==
    IF i > Len(v) THEN best
    ELSE PyMaxFrom(v, i + 1, IF FLess(best, v[i]) THEN v[i] ELSE best)

PyMax(v) == PyMaxFrom(v, 2, v[1])

\* x == y on floats: NaN equals nothing
FEq(x, y) == Defined(x) /\ Defined(y) /\ x = y

FAbs(x) == IF Defined(x) /\ Sign(x) < 0 THEN FNeg(x) ELSE x

\* Faulty variant of normalize_minmax: divides by the maximum, not by the range.
NormalizeByMax(v) ==
    IF v = <<>> THEN [raised |-> "ValueError", value |-> <<>>]
    ELSE LET max_val == PyMax(v)
         IN  [raised |-> "none",
              value  |-> [i \in 1..Len(v) |-> FDiv(v[i], max_val)]]

normalize_minmax(v) ==
    IF v = <<>> THEN [raised |-> "ValueError", value |-> <<>>]
    ELSE LET min_val == PyMin(v)
             max_val == PyMax(v)
         IN  [raised |-> "none",
              value  |-> IF FEq(min_val, max_val)
                         THEN [i \in 1..Len(v) |-> One]
                         ELSE [i \in 1..Len(v) |->
                                  FDiv(FSub(v[i], min_val), FSub(max_val, min_val))]]

Metrics == {"returns", "volatility", "sharpe", "sortino", "drawdown"}

\* what all_metrics_values[m] holds, from the metric computed per instrument:
\* the drawdown is stored as abs(max_dd)
Collected(m, computed) ==
    [i \in 1..Len(computed) |-> IF m = "drawdown" THEN FAbs(computed[i]) ELSE computed[i]]

\* Faulty variant of Oriented: no metric is negated.
Unoriented(m, collected) == collected

\* the list handed to normalize_minmax for metric m
Oriented(m, collected) ==
    IF m \in {"volatility", "drawdown"}
    THEN [i \in 1..Len(collected) |-> FNeg(collected[i])]
    ELSE collected

\* normalized_values[m], from the metric computed per instrument
normalized_values(m, computed) == normalize_minmax(Oriented(m, Collected(m, computed)))

---------------------------------------------------------------------------
(* The dashboard: the repository's query, the two display functions and    *)
(* the page script.  A display function returns what it raised and what it *)
(* put on the page.  The metrics that come from a standard deviation are   *)
(* held as signed squares, as in the engine.                               *)

DefaultWindow == 252
DefaultRate == Num(2, 100)
TradingDays == 252

\* pd.concat(frames, ignore_index=True)
RECURSIVE Concat(_)
Concat(frames) == IF frames = <<>> THEN <<>> ELSE Head(frames) \o Concat(Tail(frames))

\* the tickers that have a row in the metadata table
Listed(metadata) == {metadata[i] : i \in 1..Len(metadata)}

\* pd.merge(df_prices, df_metadata, on="ticker", how="left") when every
\* row of both is of the one ticker: each price row, in order, once per
\* metadata row
MergeLeft(df_prices, df_metadata) ==
    Concat([i \in 1..Len(df_prices) |-> [j \in 1..Len(df_metadata) |-> df_prices[i]]])

\* EtfRepository.get_etf_data: no row when the ticker has no metadata or no
\* price in the period, else the ticker's price rows with start <= date <= end,
\* ordered by date, merged with its metadata
get_etf_data(metadata, table, ticker, start, end) ==
    LET Wanted(row) == row.ticker = ticker /\ row.date >= start /\ row.date <= end
        IsTicker(label) == label = ticker
        df_metadata == SelectSeq(metadata, IsTicker)
        df_prices == SortByDate(SelectSeq(table, Wanted))
    IN  IF df_metadata = <<>> THEN <<>> ELSE MergeLeft(df_prices, df_metadata)

\* df[df["ticker"] == ticker]["close"]
ClosesOf(t, ticker) ==
    LET rows == RowsOf(t, ticker)
    IN  [i \in 1..Len(rows) |-> rows[i].close]

\* Series.mean(): over the values that are not NaN, NaN when there is none
SeriesMean(s) ==
    LET obs == SelectSeq(s, Defined)
    IN  IF Len(obs) = 0 THEN NaN ELSE FDiv(FSum(obs), Int2F(Len(obs)))

\* Series.std() (ddof = 1), held as the variance
SeriesStd(s) ==
    LET obs == SelectSeq(s, Defined)
        m == FDiv(FSum(obs), Int2F(Len(obs)))
        dev == [j \in 1..Len(obs) |-> FMul(FSub(obs[j], m), FSub(obs[j], m))]
    IN  IF Len(obs) > 1 THEN FDiv(FSum(dev), Int2F(Len(obs) - 1)) ELSE NaN

\* returns.mean() * 252
AnnualisedReturn(r) == FMul(SeriesMean(r), Int2F(TradingDays))

\* the window display_etf_analysis gives the rolling statistics: it passes
\* none, so the default of calculate_volatility and calculate_sharpe_ratio
AnalysisWindow(r) == DefaultWindow

NoMetrics == [total_return |-> NaN, annualised_return |-> NaN,
              volatility |-> NaN, sharpe |-> NaN]

\* display_etf_analysis: the four st.metric values.  Series.iloc[-1] raises
\* IndexError on a series without rows.
display_etf_analysis(t, ticker, rf, fm) ==
    LET close == ClosesOf(t, ticker)
        r == calculate_returns(close, fm)
        cum_returns == calculate_cumulative_returns(close, fm)
        volatility == calculate_volatility(r, AnalysisWindow(r))
        sharpe == calculate_sharpe_ratio(r, rf, AnalysisWindow(r))
    IN  IF Len(close) = 0 THEN [raised |-> "IndexError", shown |-> NoMetrics]
        ELSE [raised |-> "none",
              shown  |-> [total_return      |-> cum_returns[Len(close)],
                          annualised_return |-> AnnualisedReturn(r),
                          volatility        |-> volatility[Len(close)],
                          sharpe            |-> sharpe[Len(close)]]]

\* tab2: annualised return and volatility (returns.std() * np.sqrt(252)) per ticker
RiskReturn(t, ts, fm) ==
    [k \in 1..Len(ts) |->
        LET r == calculate_returns(ClosesOf(t, ts[k]), fm)
        IN  [annualized_return     |-> AnnualisedReturn(r),
             annualized_volatility |-> FMul(SeriesStd(r), Int2F(TradingDays))]]

\* tab3: what the correlation tab shows; an exception is caught and reported
CorrelationTab(t, ts, fm) ==
    IF t = <<>> \/ Len(ts) < 2 THEN [message |-> "warning", matrix |-> EmptyFrame]
    ELSE LET daily_returns_df ==
                 DropEmptyRows(FramePctChange(Pivot(DateLabelled(t)), fm))
         IN  IF daily_returns_df.index = <<>> \/ Len(daily_returns_df.columns) < 2
             THEN [message |-> "warning", matrix |-> EmptyFrame]
             ELSE [message |-> "none", matrix |-> Corr(daily_returns_df)]

\* tab4: the metrics computed for one ticker
ComparisonMetrics(t, ticker, rf, fm) ==
    LET close == ClosesOf(t, ticker)
        r == calculate_returns(close, fm)
        n == Len(close)
    IN  [returns    |-> AnnualisedReturn(r),
         volatility |-> calculate_volatility(r, DefaultWindow)[n],
         sharpe     |-> calculate_sharpe_ratio(r, rf, DefaultWindow)[n],
         sortino    |-> calculate_sortino_ratio(r, rf, DefaultWindow)[n],
         drawdown   |-> calculate_max_drawdown(close)]

NothingCompared == [normalized |-> EmptyFrame, risk_return |-> <<>>,
                    correlation |-> [message |-> "none", matrix |-> EmptyFrame],
                    metrics |-> <<>>, radar |-> [m \in Metrics |-> <<>>]]

\* display_etf_comparison: etf_names takes .iloc[0] of the rows of every
\* requested ticker (IndexError when there is none), then the four tabs
display_etf_comparison(t, ts, rf, fm) ==
    LET normalized == normalize_prices(t, ts)
        metrics == [k \in 1..Len(ts) |-> ComparisonMetrics(t, ts[k], rf, fm)]
        radar == [m \in Metrics |->
                     normalized_values(m, [k \in 1..Len(ts) |-> metrics[k][m]])]
    IN  IF \E k \in 1..Len(ts) : RowsOf(t, ts[k]) = <<>>
        THEN [raised |-> "IndexError", shown |-> NothingCompared]
        ELSE IF normalized.raised # "none"
        THEN [raised |-> normalized.raised, shown |-> NothingCompared]
        ELSE IF ts = <<>>
        THEN [raised |-> "ValueError", shown |-> NothingCompared]
        ELSE [raised |-> "none",
              shown  |-> [normalized  |-> normalized.frame,
                          risk_return |-> RiskReturn(t, ts, fm),
                          correlation |-> CorrelationTab(t, ts, fm),
                          metrics     |-> metrics,
                          radar       |-> [m \in Metrics |-> radar[m].value]]]

IndividualPage == "Analyse individuelle"
ComparisonPage == "Comparaison d'ETFs"

\* main: the page script, from the stored tables and the widgets' values to
\* what the page shows (a message, or the output of a display function)
main(metadata, table, pg, sel, per, rf, fm) ==
    LET Data(ticker) == get_etf_data(metadata, table, ticker, per.start, per.end)
        Says(text) == [raised |-> "none", message |-> text, shown |-> <<>>]
        Shows(out) == [raised |-> out.raised, message |-> "none", shown |-> out.shown]
        all_comparison_data_df == Concat([k \in 1..Len(sel) |-> Data(sel[k])])
    IN  IF metadata = <<>> THEN Says("no metadata")
        ELSE IF pg = IndividualPage
        THEN IF Data(sel[1]) # <<>>
             THEN Shows(display_etf_analysis(Data(sel[1]), sel[1], rf, fm))
             ELSE Says("no data")
        ELSE IF Cardinality(Listed(metadata)) < 2 THEN Says("not enough ETFs")
        ELSE IF sel = <<>> THEN Says("select an ETF")
        ELSE IF Len(sel) < 2 THEN Says("select two ETFs")
        ELSE IF all_comparison_data_df # <<>>
             THEN Shows(display_etf_comparison(all_comparison_data_df, sel, rf, fm))
             ELSE Says("no data")

---------------------------------------------------------------------------
(* Inputs enumerated.                                                      *)

ReturnValues == {NaN, Num(-1, 10), Zero, Num(1, 10)}
ReturnSeries == SeqsUpTo(ReturnValues, MaxLen)
Windows == 1..MaxWindow
Rates == {Zero, DefaultRate, Num(5, 100)}

Tickers == {"A", "B"}
Dates == {1, 2, 3}
Closes == {Int2F(1), Int2F(2)}
Rows == [date : Dates, ticker : Tickers, close : Closes]

\* tables of at most n rows with at most one row per (date, ticker)
RECURSIVE TablesUpTo(_)
TablesUpTo(n) ==
    IF n = 0 THEN {<<>>}
    ELSE LET T == TablesUpTo(n - 1)
         IN  T \cup {Append(t, r) :
                        t \in {u \in T : Len(u) = n - 1},
                        r \in Rows}

HasUniqueKeys(t) ==
    \A i, j \in 1..Len(t) :
        (t[i].date = t[j].date /\ t[i].ticker = t[j].ticker) => i = j

Tables == {t \in TablesUpTo(MaxRows) : HasUniqueKeys(t)}
TickerLists == SeqsUpTo(Tickers, 2)

\* metric values of the instruments compared, with the lists of the examples
MetricValues == {NaN, NInf, PInf, Num(-1, 10), Zero, Num(1, 10), Num(2, 10)}
ScenarioValues == {<<Int2F(5), Int2F(5), Int2F(5)>>, <<Int2F(1), Int2F(2), Int2F(3)>>}
MetricLists == SeqsUpTo(MetricValues, MaxInstruments) \cup ScenarioValues

\* the stored price table: at most one row per ticker and date (the primary
\* key of etf_prices), here in ticker and date order
Today == 4
Absent == [k |-> "absent", n |-> 0, d |-> 1]
Quotes == [Tickers \X Dates -> Closes \cup {Absent}]
StoredRows(q, ticker) ==
    LET stored == SelectSeq(SortedLabels(Dates), LAMBDA d : q[<<ticker, d>>] # Absent)
    IN  [i \in 1..Len(stored) |->
            [date |-> stored[i], ticker |-> ticker, close |-> q[<<ticker, stored[i]>>]]]
StoredTables == {Concat([k \in 1..Len(TickerOrder) |-> StoredRows(q, TickerOrder[k])]) :
                    q \in Quotes}

NoMarket == [cell \in Tickers \X Dates |-> Absent]

NoTables == [etf_metadata |-> "none", etf_prices |-> "none"]

\* how the two tables were created when an ETL run has left these rows:
\* by init_database (with its primary key) when the run saved nothing,
\* by to_sql (without one) otherwise
SchemaLeft(metadata, table) ==
    [etf_metadata |-> IF metadata = <<>> THEN "keyed" ELSE "unkeyed",
     etf_prices   |-> IF table = <<>> THEN "keyed" ELSE "unkeyed"]

\* the tickers of the metadata table: those of the configuration the last
\* ETL run had
ListedEtfs == {<<>>, <<"A">>, <<"A", "B">>}

\* get_date_range: from a start that depends on the period chosen to today
Periods == {[start |-> d, end |-> Today] : d \in Dates \cup {Today}}

\* the selections the widgets allow: one of the listed ETFs in the selectbox,
\* any list of distinct listed ETFs in the multiselect
Selections(metadata, pg) ==
    IF pg = IndividualPage
    THEN IF metadata = <<>> THEN {<<>>} ELSE {<<ticker>> : ticker \in Listed(metadata)}
    ELSE IF Cardinality(Listed(metadata)) < 2 THEN {<<>>}
    ELSE {sel \in SeqsUpTo(Listed(metadata), Cardinality(Listed(metadata))) :
              \A i, j \in 1..Len(sel) : sel[i] = sel[j] => i = j}

---------------------------------------------------------------------------
(* The state machine: the caller's arguments are chosen initially, and     *)
(* there is one action per engine function.  An argument is the caller's  *)
(* object: after a call it holds what the function left in it.            *)

NoResult == <<>>

NoPeriod == [start |-> 0, end |-> 0]

\* the dashboard's variables when the engine is called directly
NoDashboard ==
    /\ values = <<>> /\ metric = "none"
    /\ etf_metadata = <<>> /\ etf_prices = <<>>
    /\ page = "none" /\ selected = <<>> /\ period = NoPeriod

\* the ETL's variables when the engine is called directly
NoEtl ==
    /\ config = <<>> /\ market = NoMarket /\ pc = "none" /\ schema = NoTables

Init ==
    /\ fill_method \in FillMethods
    /\ op = "none"
    /\ result = NoResult
    /\ raised = "none"
    /\ NoDashboard
    /\ NoEtl
    /\ \/ /\ given = "prices"
          /\ prices \in PriceSeries
          /\ returns = NoSeries /\ window = DefaultWindow
          /\ risk_free_rate = DefaultRate
          /\ df = <<>> /\ tickers = <<>>
       \/ /\ given = "returns"
          /\ returns \in ReturnSeries
          /\ window \in Windows
          /\ risk_free_rate \in Rates
          /\ prices = NoSeries
          /\ df = <<>> /\ tickers = <<>>
       \/ /\ given = "df"
          /\ df \in Tables
          /\ tickers \in TickerLists
          /\ prices = NoSeries
          /\ returns = NoSeries /\ window = DefaultWindow
          /\ risk_free_rate = DefaultRate
       \/ /\ given = "returns_df"
          /\ df \in Tables
          /\ tickers = <<>>
          /\ prices = NoSeries
          /\ returns = NoSeries /\ window = DefaultWindow
          /\ risk_free_rate = DefaultRate

Arguments == <<fill_method, given, prices, returns, window, risk_free_rate, df, tickers>>

ViewArguments == <<values, metric, etf_metadata, etf_prices, page, selected, period>>

EtlState == <<config, market, pc, schema>>

Returns(name, value) ==
    /\ op' = name
    /\ result' = value
    /\ raised' = "none"
    /\ UNCHANGED Arguments
    /\ UNCHANGED ViewArguments
    /\ UNCHANGED EtlState

CalculateReturns ==
    /\ given = "prices"
    /\ Returns("calculate_returns", calculate_returns(prices, fill_method))

CalculateCumulativeReturns ==
    /\ given = "prices"
    /\ Returns("calculate_cumulative_returns",
               calculate_cumulative_returns(prices, fill_method))

CalculateMaxDrawdown ==
    /\ given = "prices"
    /\ Returns("calculate_max_drawdown", calculate_max_drawdown(prices))

CalculateVolatility ==
    /\ given = "returns"
    /\ Returns("calculate_volatility", calculate_volatility(returns, window))

CalculateSharpeRatio ==
    /\ given = "returns"
    /\ Returns("calculate_sharpe_ratio",
               calculate_sharpe_ratio(returns, risk_free_rate, window))

CalculateSortinoRatio ==
    /\ given = "returns"
    /\ op' = "calculate_sortino_ratio"
    /\ result' = calculate_sortino_ratio(returns, risk_free_rate, window)
    /\ raised' = "none"
    /\ returns' = SortinoObjects(returns).returns
    /\ UNCHANGED <<fill_method, given, prices, window, risk_free_rate, df, tickers>>
    /\ UNCHANGED ViewArguments
    /\ UNCHANGED EtlState

NormalizePrices ==
    /\ given = "df"
    /\ LET r == normalize_prices(df, tickers)
       IN  /\ op' = "normalize_prices"
           /\ result' = r.frame
           /\ raised' = r.raised
    /\ df' = NormalizeObjects(df).caller
    /\ UNCHANGED <<fill_method, given, prices, returns, window, risk_free_rate, tickers>>
    /\ UNCHANGED ViewArguments
    /\ UNCHANGED EtlState

CalculateCorrelationMatrix ==
    /\ given = "returns_df"
    /\ Returns("calculate_correlation_matrix",
               calculate_correlation_matrix(df, fill_method))

Next ==
    \/ CalculateReturns
    \/ CalculateCumulativeReturns
    \/ CalculateMaxDrawdown
    \/ CalculateVolatility
    \/ CalculateSharpeRatio
    \/ CalculateSortinoRatio
    \/ NormalizePrices
    \/ CalculateCorrelationMatrix

Spec == Init /\ [][Next]_vars

---------------------------------------------------------------------------
(* The dashboard's state machine: a list of metric values handed to the    *)
(* radar chart's rescaling, or a run of the page script on the stored      *)
(* tables with the widgets' values.                                        *)

NoEngineCall ==
    /\ prices = NoSeries /\ returns = NoSeries /\ window = DefaultWindow
    /\ df = <<>> /\ tickers = <<>>

ViewInit ==
    /\ fill_method \in FillMethods
    /\ op = "none"
    /\ result = NoResult
    /\ raised = "none"
    /\ NoEngineCall
    /\ \/ /\ given = "values"
          /\ values \in MetricLists
          /\ metric \in Metrics
          /\ risk_free_rate = DefaultRate
          /\ etf_metadata = <<>> /\ etf_prices = <<>>
          /\ page = "none" /\ selected = <<>> /\ period = NoPeriod
          /\ NoEtl
       \/ /\ given = "dashboard"
          /\ values = <<>> /\ metric = "none"
          /\ etf_metadata \in ListedEtfs
          /\ etf_prices \in StoredTables
          /\ page \in {IndividualPage, ComparisonPage}
          /\ selected \in Selections(etf_metadata, page)
          /\ period \in Periods
          /\ risk_free_rate = DefaultRate
          /\ config = <<>> /\ market = NoMarket /\ pc = "none"
          /\ schema = SchemaLeft(etf_metadata, etf_prices)

Shown(name, out) ==
    /\ op' = name
    /\ result' = out.value
    /\ raised' = out.raised
    /\ UNCHANGED Arguments
    /\ UNCHANGED ViewArguments
    /\ UNCHANGED EtlState

NormalizeMinmax ==
    /\ given = "values"
    /\ Shown("normalize_minmax", normalize_minmax(values))

NormalizedValues ==
    /\ given = "values"
    /\ Shown("normalized_values", normalized_values(metric, values))

Main ==
    /\ given = "dashboard"
    /\ LET out == main(etf_metadata, etf_prices, page, selected, period,
                       risk_free_rate, fill_method)
       IN  Shown("main", [raised |-> out.raised,
                          value  |-> [message |-> out.message, shown |-> out.shown]])

ViewNext ==
    \/ NormalizeMinmax
    \/ NormalizedValues
    \/ Main

ViewSpec == ViewInit /\ [][ViewNext]_vars

---------------------------------------------------------------------------
(* The ETL script (run_etl_script.main) and the repository it writes.      *)
(* to_sql(if_exists="replace") drops the table and creates it again from   *)
(* the frame's columns, without any key, then inserts the frame's rows.    *)

\* extract_etf_data then transform_price_data: the provider's rows for the
\* ticker, one per date, in date order; no row when it has none or fails
extract_etf_data(q, ticker) == StoredRows(q, ticker)

\* process_all_etfs: one metadata row per entry of the configuration, and the
\* price frames of the entries for which rows were extracted
process_all_etfs(cfg, q) ==
    LET extracted == [k \in 1..Len(cfg) |-> extract_etf_data(q, cfg[k])]
        HasRows(frame) == frame # <<>>
    IN  [df_metadata |-> cfg, list_of_df_prices |-> SelectSeq(extracted, HasRows)]

\* what get_etf_data raises: read_sql on a table that does not exist
QueryRaises(sch, metadata, ticker) ==
    IF sch.etf_metadata = "none" THEN "OperationalError"
    ELSE IF ticker \notin Listed(metadata) THEN "none"
    ELSE IF sch.etf_prices = "none" THEN "OperationalError"
    ELSE "none"

Configs == SeqsUpTo(Tickers, MaxEtfs)

\* the closes play no part in the ETL: the provider has a row or not
Markets == {q \in Quotes : \A cell \in Tickers \X Dates : q[cell] \in {Absent, One}}

EtlInit ==
    /\ fill_method \in FillMethods
    /\ given = "database"
    /\ op = "none"
    /\ result = NoResult
    /\ raised = "none"
    /\ NoEngineCall
    /\ risk_free_rate = DefaultRate
    /\ values = <<>> /\ metric = "none" /\ page = "none"
    /\ config \in Configs
    /\ market \in Markets
    /\ pc = "start"
    /\ schema = NoTables
    /\ etf_metadata = <<>> /\ etf_prices = <<>>
    /\ selected \in {<<ticker>> : ticker \in Tickers}
    /\ period \in Periods

\* a step of the script: the tables it leaves and the position it reaches
Step(name, next, sch, metadata, table) ==
    /\ op' = name
    /\ result' = NoResult
    /\ raised' = "none"
    /\ pc' = next
    /\ schema' = sch
    /\ etf_metadata' = metadata
    /\ etf_prices' = table
    /\ UNCHANGED Arguments
    /\ UNCHANGED <<values, metric, page, selected, period, config, market>>

DropTablesIfExist ==
    /\ given = "database" /\ pc = "start"
    /\ Step("drop_tables_if_exist", "dropped", NoTables, <<>>, <<>>)

\* CREATE TABLE IF NOT EXISTS, each with its primary key
InitDatabase ==
    /\ given = "database" /\ pc = "dropped"
    /\ Step("init_database", "initialised",
            [t \in DOMAIN schema |-> IF schema[t] = "none" THEN "keyed" ELSE schema[t]],
            etf_metadata, etf_prices)

SaveEtfMetadata ==
    /\ given = "database" /\ pc = "initialised"
    /\ LET df_metadata == process_all_etfs(config, market).df_metadata
       IN  IF df_metadata # <<>>
           THEN Step("save_etf_metadata", "metadata saved",
                     [schema EXCEPT !.etf_metadata = "unkeyed"], df_metadata, etf_prices)
           ELSE Step("save_etf_metadata", "metadata saved",
                     schema, etf_metadata, etf_prices)

SaveEtfPrices ==
    /\ given = "database" /\ pc = "metadata saved"
    /\ LET all_prices_concatenated ==
               Concat(process_all_etfs(config, market).list_of_df_prices)
       IN  IF all_prices_concatenated # <<>>
           THEN Step("save_etf_prices", "done",
                     [schema EXCEPT !.etf_prices = "unkeyed"],
                     etf_metadata, all_prices_concatenated)
           ELSE Step("save_etf_prices", "done", schema, etf_metadata, etf_prices)

\* the script is run again, on the database the last run left
RunEtlAgain ==
    /\ given = "database" /\ pc = "done"
    /\ Step("run_etl_script", "start", schema, etf_metadata, etf_prices)

\* a reader calls get_etf_data for its ticker and period
GetEtfData ==
    /\ given = "database"
    /\ op' = "get_etf_data"
    /\ raised' = QueryRaises(schema, etf_metadata, selected[1])
    /\ result' = IF raised' = "none"
                 THEN get_etf_data(etf_metadata, etf_prices, selected[1],
                                   period.start, period.end)
                 ELSE NoResult
    /\ UNCHANGED Arguments
    /\ UNCHANGED ViewArguments
    /\ UNCHANGED EtlState

EtlNext ==
    \/ DropTablesIfExist
    \/ InitDatabase
    \/ SaveEtfMetadata
    \/ SaveEtfPrices
    \/ RunEtlAgain
    \/ GetEtfData

EtlSpec == EtlInit /\ [][EtlNext]_vars

---------------------------------------------------------------------------
(* Properties of calculate_returns and calculate_cumulative_returns.       *)

Positions(s) == 1..Len(s)
FullyDefinedPositive(s) == \A i \in Positions(s) : IsNum(s[i]) /\ s[i].n > 0
FullyDefined(s) == \A i \in Positions(s) : IsNum(s[i])

\* C1: for a price series of length n >= 2 whose prices are all defined and
\* positive, calculate_returns has the length of the series, is undefined at the
\* first position and, at every later position i, is a defined number r with
\* (1 + r) * P[i-1] = P[i]; so exactly n-1 values are defined.
C1_ReturnsAdjacent ==
    (op = "calculate_returns" /\ Len(prices) >= 2 /\ FullyDefinedPositive(prices))
    => /\ Len(result) = Len(prices)
       /\ IsNaN(result[1])
       /\ \A i \in 2..Len(prices) :
            /\ IsNum(result[i])
            /\ FMul(FAdd(One, result[i]), prices[i - 1]) = prices[i]
       /\ Cardinality({i \in Positions(result) : Defined(result[i])}) = Len(prices) - 1

C1_Witness ==
    /\ op = "calculate_returns"
    /\ prices = <<Int2F(100), Int2F(90), Int2F(99)>>
    /\ result = <<NaN, Num(-1, 10), Num(1, 10)>>

\* C2: calculate_returns is undefined at every position whose previous price is
\* zero or undefined.
C2_UndefinedAfterZeroOrGap ==
    op = "calculate_returns"
    => \A i \in 2..Len(prices) :
          (IsNaN(prices[i - 1]) \/ prices[i - 1] = Zero) => IsNaN(result[i])

\* product of s[lo], ..., s[hi]
RECURSIVE ProductOver(_, _, _)
ProductOver(s, lo, hi) ==
    IF hi < lo THEN One ELSE FMul(ProductOver(s, lo, hi - 1), s[hi])

\* C3: for a fully defined positive price series, calculate_cumulative_returns is
\* undefined at the first position and at every later position i equals the
\* product of (1 + r_k) over k = 2..i minus 1, r being calculate_returns of the
\* series; prices [100,110,121] give [undefined, 0.10, 0.21].
C3_CumulativeIsRunningProduct ==
    (op = "calculate_cumulative_returns" /\ Len(prices) >= 1
        /\ FullyDefinedPositive(prices))
    => LET r == calculate_returns(prices, fill_method)
           g == [k \in Positions(r) |-> FAdd(One, r[k])]
       IN  /\ Len(result) = Len(prices)
           /\ IsNaN(result[1])
           /\ \A i \in 2..Len(prices) :
                result[i] = FSub(ProductOver(g, 2, i), One)
           /\ prices = <<Int2F(100), Int2F(110), Int2F(121)>>
                => result = <<NaN, Num(10, 100), Num(21, 100)>>

C3_Witness ==
    /\ op = "calculate_cumulative_returns"
    /\ prices = <<Int2F(100), Int2F(110), Int2F(121)>>
    /\ result[3] = Num(21, 100)

\* C4: if the return at a position k after the first is undefined, the cumulative
\* return is undefined at k and at every later position.
C4_GapPropagates ==
    op = "calculate_cumulative_returns"
    => LET r == calculate_returns(prices, fill_method)
       IN  \A k \in 2..Len(prices) :
              IsNaN(r[k]) => \A i \in k..Len(prices) : IsNaN(result[i])

---------------------------------------------------------------------------
(* Properties of the rolling statistics.                                   *)

RECURSIVE SumOfSquares(_)
SumOfSquares(s) ==
    IF Len(s) = 0 THEN Zero ELSE FAdd(FMul(s[1], s[1]), SumOfSquares(Tail(s)))

\* sample variance of W numbers: (sum x^2 - (sum x)^2 / W) / (W - 1)
SampleVariance(xs) ==
    LET W == Len(xs)
        sx == FSum(xs)
    IN  FDiv(FSub(SumOfSquares(xs), FDiv(FMul(sx, sx), Int2F(W))), Int2F(W - 1))

Trailing(s, i, W) == SubSeq(s, i - W + 1, i)

NegativePart(xs) == [j \in Positions(xs) |-> IF xs[j].n < 0 THEN xs[j] ELSE Zero]

\* the three statistics of W observations xs, as signed squares
VolatilityOf(xs) == FMul(SampleVariance(xs), Int2F(Len(xs)))
SharpeOf(xs, rf) ==
    FDiv(SignedSquare(FSub(FSum(xs), rf)), VolatilityOf(xs))
SortinoOf(xs, rf) ==
    FDiv(SignedSquare(FSub(FSum(xs), rf)), VolatilityOf(NegativePart(xs)))

RollingOps == {"calculate_volatility", "calculate_sharpe_ratio", "calculate_sortino_ratio"}

\* C5: for a fully defined return series and a window W >= 2, the volatility, the
\* Sharpe ratio and the Sortino ratio are aligned with the input, undefined at
\* every position before the W-th, and at every position from the W-th on hold
\* the statistic of the trailing W observations (the volatility a defined
\* number); with fewer than W observations everything is undefined.
C5_RollingWarmUp ==
    (op \in RollingOps /\ window >= 2 /\ FullyDefined(returns))
    => /\ Len(result) = Len(returns)
       /\ \A i \in Positions(returns) : i < window => IsNaN(result[i])
       /\ Len(returns) < window => \A i \in Positions(result) : IsNaN(result[i])
       /\ \A i \in window..Len(returns) :
            LET xs == Trailing(returns, i, window)
            IN  CASE op = "calculate_volatility" ->
                        IsNum(result[i]) /\ result[i] = VolatilityOf(xs)
                  [] op = "calculate_sharpe_ratio" ->
                        result[i] = SharpeOf(xs, risk_free_rate)
                  [] op = "calculate_sortino_ratio" ->
                        result[i] = SortinoOf(xs, risk_free_rate)

C5_Witness ==
    /\ op = "calculate_sortino_ratio"
    /\ window = 2
    /\ returns = <<Num(1, 10), Num(-1, 10), Zero>>
    /\ IsNaN(result[1]) /\ IsNum(result[2]) /\ IsNum(result[3])

\* C6: wherever the rolling standard deviation of the returns is zero,
\* calculate_sharpe_ratio is undefined, for every risk-free rate.
C6_SharpeUndefinedOnZeroVolatility ==
    op = "calculate_sharpe_ratio"
    => \A i \in Positions(returns) :
          calculate_volatility(returns, window)[i] = Zero => IsNaN(result[i])

\* C7: calculate_sortino_ratio is undefined at every position with a full window
\* that holds no negative return or whose downside standard deviation is zero.
C7_SortinoUndefinedWithoutDownside ==
    op = "calculate_sortino_ratio"
    => \A i \in window..Len(returns) :
          LET xs == Trailing(returns, i, window)
          IN  (FullyDefined(xs)
                /\ (\/ \A j \in Positions(xs) : xs[j].n >= 0
                    \/ RollingStd(DownsideReturns(returns), window)[i] = Zero))
              => IsNaN(result[i])

---------------------------------------------------------------------------
(* Properties of calculate_max_drawdown.                                   *)

\* the largest of the first i prices
PeakUpTo(p, i) ==
    CHOOSE m \in {p[j] : j \in 1..i} : \A j \in 1..i : FLeq(p[j], m)

DrawdownAt(p, i) == FSub(FDiv(p[i], PeakUpTo(p, i)), One)

NonDecreasing(p) == \A i \in 2..Len(p) : FLeq(p[i - 1], p[i])

\* C8: for a non-empty positive price series, calculate_max_drawdown is the
\* smallest P[i] / max(P[0..i]) - 1; it is <= 0, it is 0 when the series never
\* decreases, and it is -0.10 for [100,90,99].
C8_MaxDrawdown ==
    (op = "calculate_max_drawdown" /\ Len(prices) >= 1 /\ FullyDefinedPositive(prices))
    => /\ IsNum(result)
       /\ \E i \in Positions(prices) : result = DrawdownAt(prices, i)
       /\ \A i \in Positions(prices) : FLeq(result, DrawdownAt(prices, i))
       /\ FLeq(result, Zero)
       /\ NonDecreasing(prices) => result = Zero
       /\ prices = <<Int2F(100), Int2F(90), Int2F(99)>> => result = Num(-1, 10)

C8_Witness ==
    /\ op = "calculate_max_drawdown"
    /\ prices = <<Int2F(100), Int2F(90), Int2F(99)>>
    /\ result = Num(-10, 100)

---------------------------------------------------------------------------
(* Properties of normalize_prices.                                         *)

DatesOf(t, ticker) == {t[i].date : i \in {j \in Positions(t) : t[j].ticker = ticker}}

CloseAt(t, ticker, date) ==
    (CHOOSE row \in {t[i] : i \in Positions(t)} :
        row.ticker = ticker /\ row.date = date).close

EarliestDate(t, ticker) ==
    CHOOSE d \in DatesOf(t, ticker) : \A e \in DatesOf(t, ticker) : d <= e

\* the values frame reports for ticker, as the set of <<date, value>> it defines
Reported(frame, ticker) ==
    LET c == PositionOf(frame.columns, ticker)
    IN  IF c = 0 THEN {}
        ELSE {<<frame.index[i], frame.data[c][i]>> :
                i \in {j \in Positions(frame.index) : Defined(frame.data[c][j])}}

\* C9: normalize_prices called with the single instrument T (which has rows)
\* returns one column, for T, over T's dates in ascending order, whose value at
\* T's earliest date is exactly 100 and whose value v at every date d of T
\* satisfies v * first_close = close(d) * 100, whatever the row order of the table.
C9_SingleInstrumentBase100 ==
    (op = "normalize_prices" /\ Len(tickers) = 1 /\ DatesOf(df, tickers[1]) # {})
    => LET T == tickers[1]
           first == EarliestDate(df, T)
       IN  /\ raised = "none"
           /\ result.columns = <<T>>
           /\ {result.index[i] : i \in Positions(result.index)} = DatesOf(df, T)
           /\ \A i \in 2..Len(result.index) : result.index[i - 1] < result.index[i]
           /\ Len(result.data[1]) = Len(result.index)
           /\ <<first, Int2F(Base)>> \in Reported(result, T)
           /\ \A i \in Positions(result.index) :
                FMul(result.data[1][i], CloseAt(df, T, first))
                    = FMul(CloseAt(df, T, result.index[i]), Int2F(Base))

C9_Witness ==
    /\ op = "normalize_prices"
    /\ tickers = <<"A">>
    /\ Len(df) = 3
    /\ df[1].ticker = "A" /\ df[1].date = 3 /\ df[1].close = Int2F(1)
    /\ df[2].ticker = "A" /\ df[2].date = 1 /\ df[2].close = Int2F(2)
    /\ df[3].ticker = "B"
    /\ result.index = <<1, 3>>
    /\ result.data = << <<Int2F(100), Int2F(50)>> >>

\* C10: the dates and values normalize_prices reports for an instrument T are
\* those it reports when T is requested alone, whichever other instruments are
\* requested and in whatever order.
C10_IndependentOfOtherInstruments ==
    (op = "normalize_prices" /\ raised = "none")
    => \A k \in Positions(tickers) :
          Reported(result, tickers[k])
              = Reported(normalize_prices(df, <<tickers[k]>>).frame, tickers[k])

---------------------------------------------------------------------------
(* Properties of calculate_correlation_matrix.                             *)

TickersIn(t) == {t[i].ticker : i \in Positions(t)}

IsSquareOver(matrix, names) ==
    /\ {matrix.columns[c] : c \in Positions(matrix.columns)} = names
    /\ Len(matrix.columns) = Cardinality(names)
    /\ matrix.index = matrix.columns
    /\ Len(matrix.data) = Len(matrix.columns)
    /\ \A a \in Positions(matrix.columns) : Len(matrix.data[a]) = Len(matrix.columns)

IsSymmetric(matrix) ==
    \A a, b \in Positions(matrix.columns) : matrix.data[a][b] = matrix.data[b][a]

\* the returns correlated for column c
ReturnColumn(t, fm, c) == FramePctChange(Pivot(PivotLabelled(t)), fm).data[c]

HasTwoValues(column) ==
    \E i, j \in Positions(column) :
        Defined(column[i]) /\ Defined(column[j]) /\ column[i] # column[j]

ClosesByDate(t, ticker) ==
    LET rows == RowsOf(SortByDate(t), ticker)
    IN  [i \in 1..Len(rows) |-> rows[i].close]

\* the correlation of the comparison page: pivot_table(index="date",
\* columns="ticker", values="close").pct_change().dropna(how="all").corr()
PageCorrelation(t, fm) == Corr(DropEmptyRows(FramePctChange(Pivot(DateLabelled(t)), fm)))

\* C12: calculate_correlation_matrix builds one row per date and one column per
\* instrument, the returns it correlates for an instrument are calculate_returns
\* of that instrument's date-ordered prices, and its result is the correlation
\* of the comparison page.
C12_ReturnsPerInstrumentByDate ==
    op = "calculate_correlation_matrix"
    => LET wide == Pivot(PivotLabelled(df))
       IN  /\ Len(wide.index) = Cardinality({df[i].date : i \in Positions(df)})
           /\ \A c \in Positions(wide.columns) :
                SelectSeq(ReturnColumn(df, fill_method, c), Defined)
                    = SelectSeq(calculate_returns(ClosesByDate(df, wide.columns[c]),
                                                  fill_method), Defined)
           /\ result = PageCorrelation(df, fill_method)

---------------------------------------------------------------------------
(* Properties of the radar chart's rescaling.                              *)

AllEqual(v) == \A i, j \in Positions(v) : v[i] = v[j]

IsLowest(v, i) == \A j \in Positions(v) : FLeq(v[i], v[j])

IsHighest(v, i) == \A j \in Positions(v) : FLeq(v[j], v[i])

\* C13: on a non-empty list of finite numbers normalize_minmax returns, without
\* raising, a list of the same length whose elements lie in [0, 1] and are
\* ordered as the values they come from, every minimum at 0 and every maximum
\* at 1 when the values are not all equal, every element 1 when they are;
\* [5,5,5] gives [1,1,1] and [1,2,3] gives [0,1/2,1].
C13_MinMaxRescale ==
    (op = "normalize_minmax" /\ values # <<>> /\ FullyDefined(values))
    => /\ raised = "none"
       /\ Len(result) = Len(values)
       /\ \A i \in Positions(result) : FLeq(Zero, result[i]) /\ FLeq(result[i], One)
       /\ IF AllEqual(values)
          THEN \A i \in Positions(result) : result[i] = One
          ELSE /\ \A i \in Positions(values) :
                    /\ IsLowest(values, i) => result[i] = Zero
                    /\ IsHighest(values, i) => result[i] = One
               /\ \A i, j \in Positions(values) :
                    FLess(values[i], values[j]) <=> FLess(result[i], result[j])
       /\ values = <<Int2F(5), Int2F(5), Int2F(5)>> => result = <<One, One, One>>
       /\ values = <<Int2F(1), Int2F(2), Int2F(3)>> => result = <<Zero, Num(1, 2), One>>

C13_Witness ==
    /\ op = "normalize_minmax"
    /\ values = <<Int2F(1), Int2F(2), Int2F(3)>>
    /\ result = <<Zero, Num(1, 2), One>>

\* the value of instrument i that the metrics table is about: the magnitude
\* of the maximum drawdown, the metric itself otherwise
Magnitude(i) == IF metric = "drawdown" THEN FAbs(values[i]) ELSE values[i]

DistinctMagnitudes ==
    \A i, j \in Positions(values) : Magnitude(i) = Magnitude(j) => i = j

\* C14: in the radar chart, among instruments whose values of a metric are
\* finite and distinct, the one with the lowest volatility (the smallest
\* drawdown magnitude) scores 1 and the one with the highest scores 0; for the
\* return, Sharpe and Sortino the one with the highest value scores 1 and the
\* one with the lowest scores 0.
C14_RadarOrientation ==
    (op = "normalized_values" /\ Len(values) >= 2 /\ FullyDefined(values)
        /\ DistinctMagnitudes)
    => /\ raised = "none"
       /\ Len(result) = Len(values)
       /\ \A i \in Positions(values) :
            LET lowest == \A j \in Positions(values) : FLeq(Magnitude(i), Magnitude(j))
                highest == \A j \in Positions(values) : FLeq(Magnitude(j), Magnitude(i))
            IN  IF metric \in {"volatility", "drawdown"}
                THEN /\ lowest => result[i] = One
                     /\ highest => result[i] = Zero
                ELSE /\ highest => result[i] = One
                     /\ lowest => result[i] = Zero

C14_Witness ==
    /\ op = "normalized_values"
    /\ metric = "volatility"
    /\ values = <<Num(1, 10), Num(2, 10)>>
    /\ result = <<One, Zero>>

---------------------------------------------------------------------------
(* Properties of the engine as a whole.                                    *)

SeriesFunctions == {"calculate_returns", "calculate_cumulative_returns",
                    "calculate_volatility", "calculate_sharpe_ratio",
                    "calculate_sortino_ratio"}

\* the call was given an empty series, or a table in which a requested
\* instrument has no rows
DegenerateInput ==
    \/ given = "prices" /\ prices = <<>>
    \/ given = "returns" /\ returns = <<>>
    \/ given = "df"
         /\ \E k \in Positions(tickers) : RowsOf(df, tickers[k]) = <<>>
    \/ given = "returns_df" /\ df = <<>>

\* C15: an engine function given an empty series, or a requested instrument
\* without rows in the table, does not raise, and returns an empty series (an
\* undefined drawdown).
C15_DegenerateInputNeverRaises ==
    (op # "none" /\ DegenerateInput)
    => /\ raised = "none"
       /\ op \in SeriesFunctions => result = <<>>
       /\ op = "calculate_max_drawdown" => IsNaN(result)

---------------------------------------------------------------------------
(* Properties of the dashboard.                                            *)

\* the rows the repository returns for a ticker in the period chosen
RowsInPeriod(ticker) ==
    get_etf_data(etf_metadata, etf_prices, ticker, period.start, period.end)

\* C16: when an ETF selected on the page has no price row in the period, alone
\* or next to ETFs that have some, the page raises no exception; the individual
\* page reports that there is no data.
C16_MissingDataNeverRaises ==
    (op = "main" /\ \E k \in Positions(selected) : RowsInPeriod(selected[k]) = <<>>)
    => /\ raised = "none"
       /\ page = IndividualPage => result.message = "no data"

---------------------------------------------------------------------------
(* The functions of the engine and their effect on the caller.             *)

\* the functions helpers_analysis defines
EngineFunctions == {"get_date_range", "calculate_returns", "calculate_cumulative_returns",
                    "calculate_volatility", "calculate_sharpe_ratio",
                    "calculate_sortino_ratio", "calculate_max_drawdown",
                    "normalize_prices", "calculate_correlation_matrix"}

\* C17: the engine provides a rolling beta of the instrument's returns against
\* the market's: one of its functions is a beta, and every call made is to a
\* function of the engine.
C17_EngineProvidesBeta ==
    /\ op \in EngineFunctions \cup {"none"}
    /\ \E f \in EngineFunctions : f \in {"beta", "calculate_beta", "calculate_rolling_beta"}

\* C18: no call changes the caller's price series, return series, table or
\* ticker list, and a call repeated on them returns (or raises) the same.
C18_ArgumentsUnchanged ==
    [][/\ prices' = prices /\ returns' = returns /\ df' = df /\ tickers' = tickers
       /\ op' = op => (result' = result /\ raised' = raised)]_vars

C18_Witness ==
    /\ op = "calculate_sortino_ratio"
    /\ \E i \in Positions(returns) : FLess(Zero, returns[i])
    /\ \E i \in Positions(result) : Defined(result[i])

---------------------------------------------------------------------------
(* The annualisation of the rolling statistics.                            *)

\* the statistics of the observations xs annualised with 252 trading days,
\* as signed squares: std * sqrt(252), and mean(x - rf / 252) * 252 over it
Volatility252(xs) == FMul(SampleVariance(xs), Int2F(TradingDays))
ExcessMean252(xs, rf) ==
    FMul(FSub(FDiv(FSum(xs), Int2F(Len(xs))), FDiv(rf, Int2F(TradingDays))),
         Int2F(TradingDays))
Sharpe252(xs, rf) == FDiv(SignedSquare(ExcessMean252(xs, rf)), Volatility252(xs))
Sortino252(xs, rf) ==
    FDiv(SignedSquare(ExcessMean252(xs, rf)), Volatility252(NegativePart(xs)))

\* C19: for every window W >= 2 the caller supplies, at every position from the
\* W-th on of a fully defined return series, the volatility is the deviation of
\* the trailing W returns times sqrt(252), and the Sharpe and Sortino ratios
\* are the mean of the returns in excess of rf / 252, times 252, over the
\* (downside) deviation times sqrt(252).
C19_AnnualisationIs252 ==
    (op \in RollingOps /\ window >= 2 /\ FullyDefined(returns))
    => \A i \in window..Len(returns) :
            LET xs == Trailing(returns, i, window)
            IN  CASE op = "calculate_volatility" -> result[i] = Volatility252(xs)
                  [] op = "calculate_sharpe_ratio" ->
                        result[i] = Sharpe252(xs, risk_free_rate)
                  [] op = "calculate_sortino_ratio" ->
                        result[i] = Sortino252(xs, risk_free_rate)

---------------------------------------------------------------------------
(* The metrics of the individual page.                                     *)

\* C20: on the individual page, for a period with n price rows, 2 < n < 253,
\* the annualised volatility and the Sharpe ratio shown are computed over a
\* window adjusted to the period, so both are defined.
C20_ShortPeriodMetricsDefined ==
    (op = "main" /\ page = IndividualPage /\ selected # <<>>)
    => LET n == Len(RowsInPeriod(selected[1]))
       IN  (2 < n /\ n < DefaultWindow + 1)
           => /\ raised = "none"
              /\ Defined(result.shown.volatility)
              /\ Defined(result.shown.sharpe)

---------------------------------------------------------------------------
(* The radar scores and the order of the instruments.                      *)

Permuted(v, p) == [i \in 1..Len(v) |-> v[p[i]]]

\* C23: the scores of a list of values taken in another order are the scores
\* of the list, in that order, whether the rescaling is called directly or
\* for a metric of the radar chart, and whether or not some value is NaN.
C23_ScoresFollowPermutation ==
    (op \in {"normalize_minmax", "normalized_values"} /\ values # <<>>)
    => \A p \in Permutations(Positions(values)) :
          LET other == IF op = "normalize_minmax"
                       THEN normalize_minmax(Permuted(values, p))
                       ELSE normalized_values(metric, Permuted(values, p))
          IN  /\ other.raised = raised
              /\ other.value = Permuted(result, p)

---------------------------------------------------------------------------
(* Properties of the repository.                                           *)

\* C21: get_etf_data raises ValueError when the metadata table has no row for
\* the requested ticker.
C21_UnknownTickerRaises ==
    (op = "get_etf_data" /\ schema.etf_metadata # "none"
        /\ selected[1] \notin Listed(etf_metadata))
    => raised = "ValueError"

StrictlyIncreasingDates(rows) ==
    \A i, j \in Positions(rows) : i < j => rows[i].date < rows[j].date

\* C22: once an ETL run is over, whatever the configuration, the rows
\* get_etf_data returns are rows of the ticker asked for, within the period,
\* strictly increasing by date, and the price table has at most one row per
\* date and ticker.
C22_OneRowPerDateAndTicker ==
    (op = "get_etf_data" /\ pc = "done")
    => /\ raised = "none"
       /\ \A i \in Positions(result) :
            /\ result[i].ticker = selected[1]
            /\ period.start <= result[i].date /\ result[i].date <= period.end
       /\ StrictlyIncreasingDates(result)
       /\ HasUniqueKeys(etf_prices)

=============================================================================
